---------------------------- MODULE Spec2Model ----------------------------
(***************************************************************************)
(* Model of removebg_batch.py: the batch loop that normalises every image  *)
(* of a folder to JPEG and removes its background, either into separate    *)
(* folders or in place, once or in a watch loop.                           *)
(*                                                                         *)
(* The file system is a function from paths to files.  A path is a record  *)
(* [dir, name]; a name is the sequence of the dot-separated components of  *)
(* the file name ("a.jpg.tmp" is <<"a", "jpg", "tmp">>), so that stem and  *)
(* suffix are computed as pathlib computes them.  A file is a record of    *)
(* its content class and its modification time.  Time is an integer clock. *)
(* The image library and the segmentation model are opaque: decoding fails *)
(* on undecodable content, segmentation fails nondeterministically, and so *)
(* does the deletion of an original.  I/O errors of the writes themselves  *)
(* and the loss of the input directory during the run are not modelled.    *)
(* Every reachable state is a state in which the process may be killed.    *)
(***************************************************************************)
EXTENDS Integers, Sequences, FiniteSets, TLC

\* ------------------------------------------------------------------ bounds
MaxMinAge == 1
MaxInterval == 1
MaxOversleep == 1
MaxPasses == 2
MaxEnv == 1

VARIABLES
    args,          \* the parsed command line (immutable)
    fs,            \* the file system: path -> [c: content class, m: mtime]
    clock,         \* time.time()
    seen,          \* seen: dict[Path, float]
    processed, skipped, errors,
    warnings,      \* number of [WARN] lines printed
    pc,            \* position of the process
    files, idx,    \* the pass's candidate list and the loop position in it
    now_mtime,     \* the local now_mtime of the in-place branch
    exitCode,      \* what main returned (-1: has not returned)
    passes,        \* number of calls of process_once
    envLeft,       \* external modifications still allowed (model bound)
    pre,           \* history: the file system when processing of src began
    left,          \* history: path -> mtime a successful processing left it with
    young,         \* history: paths skipped as unstable, unmodified and not taken up since
    base,          \* history: processed + skipped + errors at the pass's start
    last           \* history: the last candidate disposed of, how, and whether it was in young

vars == <<args, fs, clock, seen, processed, skipped, errors, warnings, pc,
          files, idx, now_mtime, exitCode, passes, envLeft, pre, left,
          young, base, last>>

\* ------------------------------------------------------------------ paths
IMAGE_EXTS == {"png", "jpg", "jpeg", "webp", "bmp", "tif", "tiff", "gif"}

\* The components that occur, in the order Python compares the strings.
Alphabet == <<"_nobg", "a", "gif", "jpg", "png", "tmp">>

Rank(s) == CHOOSE i \in 1..Len(Alphabet) : Alphabet[i] = s

Min(a, b) == IF a < b THEN a ELSE b

\* Path.suffix without its dot ("" when the name has no dot).
Suffix(name) == IF Len(name) > 1 THEN name[Len(name)] ELSE ""

\* Path.stem, as the components before the suffix.
Stem(name) == IF Len(name) > 1 THEN SubSeq(name, 1, Len(name) - 1) ELSE name

InputPath(name) == [dir |-> "input", name |-> name]

\* paths.input_dir / f"{stem}.jpg"
TargetJpg(src) == InputPath(Append(Stem(src.name), "jpg"))

\* paths.jpg_dir / f"{stem}.jpg"
JpgPath(src) == [dir |-> "jpg", name |-> Append(Stem(src.name), "jpg")]

\* paths.output_dir / f"{stem}_nobg.png"
OutPath(src) == [dir |-> "output",
                 name |-> Append(Append(Stem(src.name), "_nobg"), "png")]

\* path.with_name(path.name + ".tmp")
TmpPath(p) == [p EXCEPT !.name = Append(@, "tmp")]

\* The order of sorted() on the paths of one directory: '.' sorts before
\* every letter, so the comparison is lexicographic on the components.
NameLess(x, y) ==
    \/ \E i \in 1..Min(Len(x), Len(y)) :
          /\ \A j \in 1..(i - 1) : x[j] = y[j]
          /\ Rank(x[i]) < Rank(y[i])
    \/ /\ Len(x) < Len(y)
       /\ \A j \in 1..Len(x) : x[j] = y[j]

RECURSIVE SortPaths(_)
SortPaths(S) ==
    IF S = {} THEN <<>>
    ELSE LET m == CHOOSE p \in S : \A q \in S \ {p} : NameLess(p.name, q.name)
         IN  <<m>> \o SortPaths(S \ {m})

\* ------------------------------------------------------------------ files
Exists(p) == p \in DOMAIN fs

Put(f, k, v) == [x \in DOMAIN f \cup {k} |-> IF x = k THEN v ELSE f[x]]

Del(f, k) == [x \in DOMAIN f \ {k} |-> f[x]]

File(c, m) == [c |-> c, m |-> m]

\* Image.open(...) and the load that convert() forces succeed on these.
Decodable(c) == c \in {"orig", "norm", "nobg"}

\* The names files are supplied under from outside.
SourceNames == {<<"a">>, <<"a", "jpg">>, <<"a", "png">>}

\* PIL's open() and verify(), the fallback of is_probably_image.
PilVerify(c) == c \in {"orig", "norm", "nobg"}

is_probably_image(p) ==
    /\ Exists(p)
    /\ \/ Suffix(p.name) \in IMAGE_EXTS
       \/ PilVerify(fs[p].c)

\* Mutants of is_stable_file: the age is not compared, or compared strictly.
is_stable_file_NoAge(p) == Exists(p)

is_stable_file_Strict(p) ==
    /\ Exists(p)
    /\ clock - fs[p].m > args.min_age

is_stable_file(p) ==
    /\ Exists(p)
    /\ clock - fs[p].m >= args.min_age

\* iter_candidate_files: the regular files directly inside the input
\* directory, sorted.  jpg_dir and output_dir are directories of their own.
iter_candidate_files == SortPaths({p \in DOMAIN fs : p.dir = "input"})

\* ------------------------------------------------------------------ init
Args == [inputOk : BOOLEAN, inplace_jpg : BOOLEAN, watch : BOOLEAN,
         skip_existing : BOOLEAN, min_age : {0, MaxMinAge},
         interval : {0, MaxInterval}]

NoPath == [dir |-> "none", name |-> <<>>]

StartClock == MaxMinAge

\* The files found at start: any of the source names, each an old image, an
\* image just written or an old undecodable file, and (separate folders) the
\* two outputs of a previous run.
InitFiles ==
    {File("orig", 0), File("orig", StartClock), File("corrupt", 0)}

InitInputs ==
    UNION {[{InputPath(n) : n \in S} -> InitFiles] : S \in SUBSET SourceNames}

InitOutputs ==
    {<< >>,
     [p \in {JpgPath(InputPath(<<"a">>)), OutPath(InputPath(<<"a">>))} |->
         File("prev", 0)]}

Merge(f, g) == [x \in DOMAIN f \cup DOMAIN g |-> IF x \in DOMAIN f THEN f[x] ELSE g[x]]

InitWith(env) ==
    /\ args \in Args
    /\ args.inplace_jpg => ~args.skip_existing    \* the flag is not read in place
    /\ ~args.watch => args.interval = 0           \* nor the interval without --watch
    /\ \/ /\ ~args.inputOk
          /\ fs = << >>
       \/ /\ args.inputOk
          /\ \E i \in InitInputs, o \in InitOutputs :
                /\ args.inplace_jpg => DOMAIN o = {}
                /\ fs = Merge(i, o)
    /\ clock = StartClock
    /\ seen = << >>
    /\ processed = 0 /\ skipped = 0 /\ errors = 0 /\ warnings = 0
    /\ pc = "start"
    /\ files = << >> /\ idx = 1
    /\ now_mtime = -1
    /\ exitCode = -1
    /\ passes = 0
    /\ envLeft = env
    /\ pre = << >>
    /\ left = << >>
    /\ young = {}
    /\ base = 0
    /\ last = [src |-> NoPath, outcome |-> "none", why |-> "none", young |-> FALSE]

Init == InitWith(MaxEnv)

\* --watch on an input directory that nobody else touches during the run.
LiveInit == InitWith(0) /\ args.inputOk /\ args.watch

\* ------------------------------------------------------------------ main
src == files[idx]

\* `continue`, or the end of the for loop.
Advance ==
    /\ idx' = idx + 1
    /\ pc' = IF idx >= Len(files) THEN "passend" ELSE "filter"
    /\ pre' = << >>
    /\ UNCHANGED files

Skip(why) ==
    /\ skipped' = skipped + 1
    /\ last' = [src |-> src, outcome |-> "skipped", why |-> why,
                   young |-> src \in young]
    /\ Advance
    /\ UNCHANGED <<processed, errors>>

\* Mutant of AfterFailure: the failure ends the pass.
AfterFailure_Break ==
    /\ idx' = Len(files) + 1
    /\ pc' = "passend"
    /\ pre' = << >>
    /\ UNCHANGED files

\* Where a failed candidate leaves the loop: `continue`.
AfterFailure == Advance

Fail(why) ==
    /\ errors' = errors + 1
    /\ young' = young \ {src}
    /\ last' = [src |-> src, outcome |-> "error", why |-> why,
                   young |-> src \in young]
    /\ AfterFailure
    /\ UNCHANGED <<processed, skipped>>

\* main: the input directory is missing or no directory.
StartBadDir ==
    /\ pc = "start"
    /\ ~args.inputOk
    /\ pc' = "done"
    /\ exitCode' = 2
    /\ UNCHANGED <<args, fs, clock, seen, processed, skipped, errors, warnings,
                   files, idx, now_mtime, passes, envLeft, pre, left,
                   young, base, last>>

StartOk ==
    /\ pc = "start"
    /\ args.inputOk
    /\ pc' = "scan"
    /\ UNCHANGED <<args, fs, clock, seen, processed, skipped, errors, warnings,
                   files, idx, now_mtime, exitCode, passes, envLeft, pre,
                   left, young, base, last>>

\* Mutant of Scan: the counters are local to process_once.
Scan_ResetsCounters ==
    /\ pc = "scan"
    /\ passes < MaxPasses
    /\ passes' = passes + 1
    /\ files' = iter_candidate_files
    /\ idx' = 1
    /\ pc' = IF files' = << >> THEN "passend" ELSE "filter"
    /\ base' = 0
    /\ processed' = 0 /\ skipped' = 0 /\ errors' = 0
    /\ UNCHANGED <<args, fs, clock, seen, warnings,
                   now_mtime, exitCode, envLeft, pre, left, young, last>>

\* process_once is entered: the candidates are listed.
Scan ==
    /\ pc = "scan"
    /\ passes < MaxPasses
    /\ passes' = passes + 1
    /\ files' = iter_candidate_files
    /\ idx' = 1
    /\ pc' = IF files' = << >> THEN "passend" ELSE "filter"
    /\ base' = processed + skipped + errors
    /\ UNCHANGED <<args, fs, clock, seen, processed, skipped, errors, warnings,
                   now_mtime, exitCode, envLeft, pre, left, young, last>>

\* The stability and image filters of the loop body.
Filter ==
    /\ pc = "filter"
    /\ IF ~is_stable_file(src)
       THEN /\ Skip(IF Exists(src) THEN "unstable" ELSE "vanished")
            /\ young' = IF Exists(src) THEN young \cup {src} ELSE young
       ELSE IF ~is_probably_image(src)
       THEN /\ Skip("notimage")
            /\ UNCHANGED young
       ELSE /\ pc' = IF args.inplace_jpg THEN "dedup" ELSE "skipex"
            /\ UNCHANGED <<skipped, processed, errors, idx, files, pre,
                           last, young>>
    /\ UNCHANGED <<args, fs, clock, seen, warnings, now_mtime, exitCode,
                   passes, envLeft, left, base>>

\* The in-place test `last is not None and now_mtime <= last`.
SeenSkip(p, mt) == p \in DOMAIN seen /\ mt <= seen[p]

InplaceDedup ==
    /\ pc = "dedup"
    /\ IF ~Exists(src)
       THEN /\ Skip("vanished")
            /\ UNCHANGED now_mtime
       ELSE /\ now_mtime' = fs[src].m
            /\ IF SeenSkip(src, fs[src].m)
               THEN Skip("seen")
               ELSE /\ pc' = "convert"
                    /\ pre' = fs
                    /\ UNCHANGED <<skipped, processed, errors, idx, files, last>>
    /\ UNCHANGED <<args, fs, clock, seen, warnings, exitCode, passes, envLeft,
                   left, young, base>>

\* Mutant of ExistingSkip: one output is enough.
ExistingSkip_Either(p) ==
    args.skip_existing /\ (Exists(OutPath(p)) \/ Exists(JpgPath(p)))

\* The --skip-existing test of the separate-folder branch.
ExistingSkip(p) ==
    args.skip_existing /\ Exists(OutPath(p)) /\ Exists(JpgPath(p))

SkipExisting ==
    /\ pc = "skipex"
    /\ IF ExistingSkip(src)
       THEN Skip("existing")
       ELSE /\ pc' = "convert"
            /\ pre' = fs
            /\ UNCHANGED <<skipped, processed, errors, idx, files, last>>
    /\ UNCHANGED <<args, fs, clock, seen, warnings, now_mtime, exitCode,
                   passes, envLeft, left, young, base>>

\* Where convert_to_jpg writes.
ConvertTarget(p) == IF args.inplace_jpg THEN TargetJpg(p) ELSE JpgPath(p)

\* convert_to_jpg, up to the save: the source is opened and decoded.
ConvertOpen ==
    /\ pc = "convert"
    /\ IF Exists(src) /\ Decodable(fs[src].c)
       THEN /\ pc' = "save"
            /\ UNCHANGED <<skipped, processed, errors, idx, files, pre, last,
                           young>>
       ELSE Fail("convert")
    /\ UNCHANGED <<args, fs, clock, seen, warnings, now_mtime, exitCode,
                   passes, envLeft, left, base>>

\* im.save(jpg_path): the target is opened for writing and truncated ...
ConvertSaveBegin ==
    /\ pc = "save"
    /\ fs' = Put(fs, ConvertTarget(src), File("partial", clock))
    /\ young' = young \ {ConvertTarget(src)}
    /\ pc' = "saving"
    /\ UNCHANGED <<args, clock, seen, processed, skipped, errors, warnings,
                   files, idx, now_mtime, exitCode, passes, envLeft, pre,
                   left, base, last>>

\* ... and the encoded JPEG is written to it.
ConvertSaveEnd ==
    /\ pc = "saving"
    /\ fs' = Put(fs, ConvertTarget(src), File("norm", clock))
    /\ pc' = "remove"
    /\ UNCHANGED <<args, clock, seen, processed, skipped, errors, warnings,
                   files, idx, now_mtime, exitCode, passes, envLeft, pre,
                   left, young, base, last>>

\* remove_background of the separate-folder branch: rembg on the bytes of the
\* normalised JPEG, written to <output_dir>/<stem>_nobg.png; then the count.
RemoveBgSeparate ==
    /\ pc = "remove"
    /\ ~args.inplace_jpg
    /\ \/ /\ Fail("remove")
          /\ UNCHANGED fs
       \/ /\ fs' = Put(fs, OutPath(src), File("nobg", clock))
          /\ processed' = processed + 1
          /\ last' = [src |-> src, outcome |-> "processed", why |-> "ok",
                   young |-> src \in young]
          /\ young' = young \ {src}
          /\ Advance
          /\ UNCHANGED <<skipped, errors>>
    /\ UNCHANGED <<args, clock, seen, warnings, now_mtime, exitCode, passes,
                   envLeft, left, base>>

\* remove_background_to_jpg_bytes of the in-place branch: rembg on the bytes
\* of the target, flattened to JPEG bytes held in memory.
RemoveBgInplace ==
    /\ pc = "remove"
    /\ args.inplace_jpg
    /\ \/ Fail("remove")
       \/ /\ pc' = "tmpwrite"
          /\ UNCHANGED <<skipped, processed, errors, idx, files, pre, last,
                         young>>
    /\ UNCHANGED <<args, fs, clock, seen, warnings, now_mtime, exitCode,
                   passes, envLeft, left, base>>

\* atomic_write: tmp.write_bytes(data)
AtomicWriteTmp ==
    /\ pc = "tmpwrite"
    /\ fs' = Put(fs, TmpPath(TargetJpg(src)), File("nobg", clock))
    /\ pc' = "replace"
    /\ UNCHANGED <<args, clock, seen, processed, skipped, errors, warnings,
                   files, idx, now_mtime, exitCode, passes, envLeft, pre,
                   left, young, base, last>>

\* atomic_write: os.replace(tmp, path)
AtomicReplace ==
    /\ pc = "replace"
    /\ LET tmp == TmpPath(TargetJpg(src))
       IN  fs' = Del(Put(fs, TargetJpg(src), fs[tmp]), tmp)
    /\ young' = young \ {TargetJpg(src)}
    /\ pc' = "finish"
    /\ UNCHANGED <<args, clock, seen, processed, skipped, errors, warnings,
                   files, idx, now_mtime, exitCode, passes, envLeft, pre,
                   left, base, last>>

\* The registry after a file was processed in place: seen[target_jpg] is set
\* from the target's stat (when it can be stat'ed), then seen[src].
SeenAfter(s, p, mt, fsAfter) ==
    LET t  == TargetJpg(p)
        s1 == IF t \in DOMAIN fsAfter THEN Put(s, t, fsAfter[t].m) ELSE s
    IN  Put(s1, p, mt)

\* Mutant of Unlinked: the original is never deleted.
Unlinked_Kept(f, p) == f

\* src.unlink(missing_ok=True), when it succeeds.
Unlinked(f, p) == Del(f, p)

\* The original is deleted (a failure is a warning), the registry updated,
\* the file counted.
FinishInplace ==
    /\ pc = "finish"
    /\ \/ /\ src # TargetJpg(src)
          /\ fs' = Unlinked(fs, src)
          /\ UNCHANGED warnings
          /\ last' = [src |-> src, outcome |-> "processed", why |-> "ok",
                   young |-> src \in young]
       \/ /\ src # TargetJpg(src)
          /\ Exists(src)
          /\ fs' = fs
          /\ warnings' = warnings + 1
          /\ last' = [src |-> src, outcome |-> "processed", why |-> "undeleted",
                   young |-> src \in young]
       \/ /\ src = TargetJpg(src)
          /\ UNCHANGED <<fs, warnings>>
          /\ last' = [src |-> src, outcome |-> "processed", why |-> "ok",
                   young |-> src \in young]
    /\ seen' = SeenAfter(seen, src, now_mtime, fs')
    /\ left' = IF src \in DOMAIN fs' THEN Put(left, src, fs'[src].m)
               ELSE Del(left, src)
    /\ young' = young \ {src}
    /\ processed' = processed + 1
    /\ Advance
    /\ UNCHANGED <<args, clock, skipped, errors, now_mtime, exitCode, passes,
                   envLeft, base>>

\* Mutant of ExitStatus: errors do not reach the exit status.
ExitStatus_Zero(e) == 0

\* return 0 if errors == 0 else 1
ExitStatus(e) == IF e = 0 THEN 0 ELSE 1

\* Not --watch: the one pass is over, main returns.
ReturnSingle ==
    /\ pc = "passend"
    /\ ~args.watch
    /\ pc' = "done"
    /\ exitCode' = ExitStatus(errors)
    /\ UNCHANGED <<args, fs, clock, seen, processed, skipped, errors, warnings,
                   files, idx, now_mtime, passes, envLeft, pre, left,
                   young, base, last>>

\* --watch: time.sleep(interval), then the next pass.  The sleep lasts the
\* interval or longer; the time the pass itself took is part of the excess.
WatchSleep ==
    /\ pc = "passend"
    /\ args.watch
    /\ \E d \in {0, MaxOversleep} : clock' = clock + args.interval + d
    /\ pc' = "scan"
    /\ UNCHANGED <<args, fs, seen, processed, skipped, errors, warnings,
                   files, idx, now_mtime, exitCode, passes, envLeft, pre,
                   left, young, base, last>>

\* ----------------------------------------------------------- environment
EnvPoint == envLeft > 0 /\ args.inputOk

\* Somebody else writes a file into the input directory between two passes
\* (what is written before the first pass is part of Init).
EnvWrite ==
    /\ EnvPoint
    /\ pc = "scan"
    /\ passes >= 1
    /\ \E n \in SourceNames :
          /\ fs' = Put(fs, InputPath(n), File("orig", clock))
          /\ young' = young \ {InputPath(n)}
    /\ envLeft' = envLeft - 1
    /\ UNCHANGED <<args, clock, seen, processed, skipped, errors, warnings, pc,
                   files, idx, now_mtime, exitCode, passes, pre, left,
                   base, last>>

\* Somebody else removes a candidate after it was listed, before the process
\* stats it.
EnvRemove ==
    /\ EnvPoint
    /\ pc \in {"filter", "dedup"}
    /\ Exists(src)
    /\ fs' = Del(fs, src)
    /\ young' = young \ {src}
    /\ envLeft' = envLeft - 1
    /\ UNCHANGED <<args, clock, seen, processed, skipped, errors, warnings, pc,
                   files, idx, now_mtime, exitCode, passes, pre, left,
                   base, last>>

Next ==
    \/ StartBadDir
    \/ StartOk
    \/ Scan
    \/ Filter
    \/ InplaceDedup
    \/ SkipExisting
    \/ ConvertOpen
    \/ ConvertSaveBegin
    \/ ConvertSaveEnd
    \/ RemoveBgSeparate
    \/ RemoveBgInplace
    \/ AtomicWriteTmp
    \/ AtomicReplace
    \/ FinishInplace
    \/ ReturnSingle
    \/ WatchSleep
    \/ EnvWrite
    \/ EnvRemove

Spec == Init /\ [][Next]_vars

TypeOK ==
    /\ args \in Args
    /\ pc \in {"start", "scan", "filter", "dedup", "skipex", "convert", "save",
               "saving", "remove", "tmpwrite", "replace", "finish", "passend",
               "done"}
    /\ processed >= 0 /\ skipped >= 0 /\ errors >= 0

\* ----------------------------------------------------------------- claims
\* A step of the process itself (the environment moves neither pc nor idx).
ProgramStep == pc' # pc \/ idx' # idx

InLoop == pc \in {"filter", "dedup", "skipex", "convert", "save", "saving",
                  "remove", "tmpwrite", "replace", "finish"}

\* C1: in place, a file that a pass processed successfully and that still has
\* the modification time that processing left it with is never processed
\* again: the process never starts converting it.
C1_ProcessedAtMostOnce ==
    (args.inplace_jpg /\ pc = "convert")
        => ~(src \in DOMAIN left /\ Exists(src) /\ fs[src].m = left[src])

\* C2: in place, the target <stem>.jpg never holds partially written content,
\* and until the rename of the atomic write it holds its previous version (or
\* is still absent).
C2_TargetWrittenAtomically ==
    (args.inplace_jpg /\ pc \in {"save", "saving", "remove", "tmpwrite", "replace"})
        => LET t == TargetJpg(src)
           IN  /\ Exists(t) <=> t \in DOMAIN pre
               /\ Exists(t) => fs[t] = pre[t] /\ fs[t].c # "partial"

\* C3: in place, a step that counts a failed candidate leaves the source file
\* as it was before processing began, and the registry unchanged.
C3_FailureLeavesSourceUntouched ==
    [][(args.inplace_jpg /\ errors' = errors + 1)
          => /\ src \in DOMAIN fs'
             /\ src \in DOMAIN pre
             /\ fs'[src] = pre[src]
             /\ seen' = seen]_vars

\* C4 as claimed: in place, whenever a file is counted as processed, its
\* <stem>.jpg exists and the original of another name is gone, also when
\* deleting it failed.
C4_OriginalGoneWheneverCounted ==
    [][(args.inplace_jpg /\ processed' = processed + 1)
          => /\ TargetJpg(src) \in DOMAIN fs'
             /\ src # TargetJpg(src) => src \notin DOMAIN fs']_vars

\* C4 as amended: in place, whenever a file is counted as processed, its
\* <stem>.jpg exists and holds the background-removed JPEG, and the original
\* of another name is gone unless deleting it failed, in which case exactly
\* one warning was printed, no error counted and the original is unchanged.
C4_OriginalGoneUnlessDeleteFailed ==
    [][(args.inplace_jpg /\ processed' = processed + 1)
          => LET t == TargetJpg(src)
             IN  /\ t \in DOMAIN fs'
                 /\ fs'[t].c = "nobg"
                 /\ TmpPath(t) \notin DOMAIN fs'
                 /\ errors' = errors
                 /\ \/ src = t /\ warnings' = warnings
                    \/ src # t /\ src \notin DOMAIN fs' /\ warnings' = warnings
                    \/ /\ src # t
                       /\ src \in DOMAIN fs' /\ fs'[src] = fs[src]
                       /\ warnings' = warnings + 1]_vars

C4_Witness ==
    /\ args.inplace_jpg
    /\ last.outcome = "processed"
    /\ last.why = "ok"
    /\ last.src # TargetJpg(last.src)
    /\ ~Exists(last.src)
    /\ Exists(TargetJpg(last.src))

\* C5: in both modes a failed candidate adds exactly one to errors and nothing
\* to processed or skipped, the loop goes on with the next candidate of the
\* same list, and a pass ends with every candidate counted exactly once.
C5_FailureNeverAborts ==
    /\ [][errors' # errors
             => /\ errors' = errors + 1
                /\ processed' = processed /\ skipped' = skipped
                /\ files' = files /\ idx' = idx + 1
                /\ pc' = IF idx < Len(files) THEN "filter" ELSE "passend"]_vars
    /\ [](InLoop => processed + skipped + errors = base + idx - 1)
    /\ [](pc = "passend" => processed + skipped + errors = base + Len(files))

\* A failure, and a later candidate of the same pass processed after it.
C5_Witness ==
    /\ passes = 1
    /\ pc = "passend"
    /\ errors = 1
    /\ last.outcome = "processed"

\* C6: main returns 2 without a pass when the input directory is bad; without
\* --watch it runs exactly one pass and returns 0 iff errors = 0, else 1; with
\* --watch it never returns: a finished pass is followed by the sleep of at
\* least the interval and the next pass.
C6_ExitStatus ==
    /\ [](pc # "done" <=> exitCode = -1)
    /\ [](~args.inputOk => passes = 0 /\ (pc = "done" => exitCode = 2))
    /\ []((args.inputOk /\ ~args.watch) => passes <= 1)
    /\ []((args.inputOk /\ ~args.watch /\ pc = "done")
             => /\ passes = 1
                /\ exitCode \in {0, 1}
                /\ exitCode = 0 <=> errors = 0)
    /\ []((args.inputOk /\ args.watch) => pc # "done")
    /\ []((args.watch /\ pc = "passend") => ENABLED WatchSleep)
    /\ [][(args.watch /\ pc = "passend" /\ pc' # pc)
             => pc' = "scan" /\ clock' >= clock + args.interval]_vars
    /\ [][(pc = "scan" /\ pc' # pc) => passes' = passes + 1]_vars

C6_Witness ==
    /\ pc = "done"
    /\ exitCode = 1
    /\ passes = 1
    /\ errors > 0

\* C7: separate folders: with --skip-existing and both outputs present the
\* candidate is skipped (skipped + 1, nothing else counted, no file written
\* or touched); otherwise it goes on to normalisation and background removal.
C7_SkipExisting ==
    [][(pc = "skipex" /\ ProgramStep)
          => IF /\ args.skip_existing
                /\ JpgPath(src) \in DOMAIN fs
                /\ OutPath(src) \in DOMAIN fs
             THEN /\ skipped' = skipped + 1
                  /\ processed' = processed /\ errors' = errors
                  /\ fs' = fs
                  /\ idx' = idx + 1
             ELSE /\ pc' = "convert"
                  /\ idx' = idx
                  /\ skipped' = skipped]_vars

C7_Witness ==
    /\ ~args.inplace_jpg
    /\ args.skip_existing
    /\ last.outcome = "skipped"
    /\ last.why = "existing"
    /\ Exists(JpgPath(last.src)) /\ Exists(OutPath(last.src))

\* C8: in both modes, a candidate that vanished, is younger than min-age or is
\* no probable image only adds one to skipped: no file, no other counter and
\* no registry entry changes.
C8_FilteredOnlySkipped ==
    [][(/\ ProgramStep
        /\ \/ pc \in {"filter", "dedup"} /\ src \notin DOMAIN fs
           \/ pc = "filter" /\ clock - fs[src].m < args.min_age
           \/ /\ pc = "filter"
              /\ Suffix(src.name) \notin IMAGE_EXTS
              /\ fs[src].c = "corrupt")
          => /\ skipped' = skipped + 1
             /\ processed' = processed /\ errors' = errors
             /\ fs' = fs
             /\ seen' = seen
             /\ idx' = idx + 1]_vars

C8_Witness ==
    /\ last.outcome = "skipped"
    /\ last.why = "unstable"
    /\ Exists(last.src)
    /\ clock - fs[last.src].m < args.min_age

\* C9: processed, skipped and errors never decrease, within a pass or from
\* one pass to the next.
C9_CountersMonotonic ==
    [][/\ processed' >= processed
       /\ skipped' >= skipped
       /\ errors' >= errors]_vars

\* A second pass that started from nonzero counters and counted further.
C9_Witness ==
    /\ passes = 2
    /\ base > 0
    /\ processed + skipped + errors > base

C1_Witness ==
    /\ args.inplace_jpg
    /\ passes = 2
    /\ last.outcome = "skipped"
    /\ last.why = "seen"
    /\ last.src \in DOMAIN left
    /\ Exists(last.src)
    /\ fs[last.src].m = left[last.src]

\* What keeps a stable image from being taken up: the in-place registry test,
\* or --skip-existing with both outputs present.
Suppressed(p) ==
    \/ /\ args.inplace_jpg
       /\ p \in DOMAIN seen
       /\ p \in DOMAIN fs
       /\ fs[p].m <= seen[p]
    \/ /\ ~args.inplace_jpg
       /\ args.skip_existing
       /\ JpgPath(p) \in DOMAIN fs
       /\ OutPath(p) \in DOMAIN fs

\* The candidate at hand was skipped as too young by an earlier pass, was not
\* modified or removed since, is an image and has reached min-age.
YoungNowStable ==
    /\ args.watch
    /\ pc \in {"filter", "dedup", "skipex"}
    /\ src \in young
    /\ src \in DOMAIN fs
    /\ clock - fs[src].m >= args.min_age
    /\ Suffix(src.name) \in IMAGE_EXTS \/ fs[src].c # "corrupt"

\* C10 as claimed: with --watch, an image skipped as too young and left alone
\* is not skipped again by a pass that finds it aged min-age or more: it is
\* taken up, and processed unless conversion or removal fails.
C10_YoungLaterProcessed ==
    [][(YoungNowStable /\ ProgramStep) => skipped' = skipped]_vars

\* C10 as amended: the same, unless the registry test of the in-place mode or
\* --skip-existing suppresses the file; the skip of a young file changes
\* neither the registry nor a file; a file taken up is counted as processed
\* unless a step of it fails; and (under fair scheduling of the process) a
\* young file is eventually taken up or overwritten, or is suppressed, or the
\* process has run the passes the model follows.
C10_YoungLaterProcessedUnlessSuppressed ==
    /\ [][(YoungNowStable /\ ProgramStep /\ ~Suppressed(src))
             => skipped' = skipped]_vars
    /\ [][(pc = "filter" /\ ProgramStep /\ src \in young')
             => seen' = seen /\ fs' = fs /\ left' = left]_vars
    /\ [][(pc \in {"convert", "save", "saving", "remove", "tmpwrite",
                   "replace", "finish"} /\ ProgramStep)
             => /\ skipped' = skipped
                /\ idx' # idx => processed' = processed + 1
                                   \/ errors' = errors + 1]_vars
    /\ \A n \in SourceNames :
          (InputPath(n) \in young)
              ~> \/ InputPath(n) \notin young
                 \/ Suppressed(InputPath(n))
                 \/ pc = "done"
                 \/ pc = "scan" /\ passes >= MaxPasses

\* A file skipped as too young by the first pass and processed by the second.
C10_Witness ==
    /\ args.watch
    /\ passes = 2
    /\ last.outcome = "processed"
    /\ last.young

\* The steps of the watching process.
LiveNext ==
    \/ StartOk \/ Scan \/ Filter \/ InplaceDedup \/ SkipExisting
    \/ ConvertOpen \/ ConvertSaveBegin \/ ConvertSaveEnd
    \/ RemoveBgSeparate \/ RemoveBgInplace \/ AtomicWriteTmp
    \/ AtomicReplace \/ FinishInplace \/ WatchSleep

\* The watching process alone, scheduled: whenever it can take a step, it
\* eventually does.
LiveSpec == LiveInit /\ [][LiveNext]_vars /\ WF_vars(LiveNext)

====
